---- MODULE Spec2Model ----
(***************************************************************************)
(* Model of renvins/blog-engine (src/main.go): the startup index build     *)
(* loadPosts, the global postCache, and the two HTTP handlers that read it.*)
(* Text is modelled as sequences of one-character strings, so that the     *)
(* string operations of the Go code (SplitN, Split, HasPrefix, TrimPrefix, *)
(* TrimSpace, TrimSuffix, filepath.Ext, time.Parse) are computed the way   *)
(* the library computes them.                                              *)
(*                                                                         *)
(* Spec is the program as built: the content directory holds files matched *)
(* by the pattern content/*.md.  SpecAnySource is the same program over a  *)
(* content directory whose names are not restricted to *.md, where two     *)
(* names can give the same slug.                                           *)
(*                                                                         *)
(* sort.Slice gives no guarantee of stability, so its result is any        *)
(* arrangement of the posts that is sorted by the less function.  The      *)
(* errors of contentFS.ReadFile and of goldmark.Convert, and the failure   *)
(* to parse the templates, are inputs.                                     *)
(***************************************************************************)
EXTENDS Integers, Sequences, FiniteSets, TLC

(***************************************************************************)
(* Bounds of the model                                                     *)
(***************************************************************************)
\* greatest number of entries of the content directory
MaxFiles == 2

(***************************************************************************)
(* strings                                                                 *)
(***************************************************************************)
\* s[from..] in Go's zero-based, half-open notation: s[lo:]
From(s, lo) == SubSeq(s, lo + 1, Len(s))

\* s[:hi]
UpTo(s, hi) == SubSeq(s, 1, hi)

\* strings.HasPrefix
HasPrefix(s, prefix) ==
    /\ Len(s) >= Len(prefix)
    /\ UpTo(s, Len(prefix)) = prefix

\* strings.HasSuffix
HasSuffix(s, suffix) ==
    /\ Len(s) >= Len(suffix)
    /\ From(s, Len(s) - Len(suffix)) = suffix

\* strings.TrimPrefix
TrimPrefix(s, prefix) == IF HasPrefix(s, prefix) THEN From(s, Len(prefix)) ELSE s

\* strings.TrimSuffix
TrimSuffix(s, suffix) ==
    IF HasSuffix(s, suffix) THEN UpTo(s, Len(s) - Len(suffix)) ELSE s

\* strings.Index: the zero-based position of the first occurrence, or -1
Index(s, sep) ==
    LET hits == {m \in 0..(Len(s) - Len(sep)) : SubSeq(s, m + 1, m + Len(sep)) = sep}
    IN  IF hits = {} THEN -1 ELSE CHOOSE m \in hits : \A k \in hits : m <= k

\* strings.genSplit with a non-empty separator: at most n pieces (n > 0),
\* or all of them (n < 0)
RECURSIVE genSplit(_, _, _)
genSplit(s, sep, n) ==
    LET m == Index(s, sep)
    IN  IF n = 1 \/ m < 0
        THEN <<s>>
        ELSE <<UpTo(s, m)>> \o genSplit(From(s, m + Len(sep)), sep, n - 1)

\* strings.SplitN
SplitN(s, sep, n) == IF n = 0 THEN <<>> ELSE genSplit(s, sep, n)

\* strings.Split
Split(s, sep) == genSplit(s, sep, -1)

\* unicode.IsSpace, on the characters of the model
IsSpace(c) == c \in {" ", "\n", "\r", "\t"}

\* strings.TrimSpace
RECURSIVE TrimLeftSpace(_)
TrimLeftSpace(s) ==
    IF s # <<>> /\ IsSpace(Head(s)) THEN TrimLeftSpace(Tail(s)) ELSE s

RECURSIVE TrimRightSpace(_)
TrimRightSpace(s) ==
    IF s # <<>> /\ IsSpace(s[Len(s)]) THEN TrimRightSpace(UpTo(s, Len(s) - 1)) ELSE s

TrimSpace(s) == TrimRightSpace(TrimLeftSpace(s))

\* filepath.Ext: the suffix beginning at the final dot of the final path
\* element, empty when there is none
Ext(path) ==
    LET dots == {i \in 1..Len(path) :
                    /\ path[i] = "."
                    /\ \A k \in i..Len(path) : path[k] # "/"}
    IN  IF dots = {} THEN <<>>
        ELSE From(path, (CHOOSE i \in dots : \A k \in dots : k <= i) - 1)

(***************************************************************************)
(* time                                                                    *)
(***************************************************************************)
\* a time.Time of the model: <<year, month, day>> at midnight UTC
ZeroTime == <<1, 1, 1>>

\* Time.After
After(t, u) ==
    \/ t[1] > u[1]
    \/ t[1] = u[1] /\ t[2] > u[2]
    \/ t[1] = u[1] /\ t[2] = u[2] /\ t[3] > u[3]

DigitChars == {"0", "1", "2", "3", "4", "5", "6", "7", "8", "9"}

DigitVal(c) ==
    CASE c = "0" -> 0 [] c = "1" -> 1 [] c = "2" -> 2 [] c = "3" -> 3
      [] c = "4" -> 4 [] c = "5" -> 5 [] c = "6" -> 6 [] c = "7" -> 7
      [] c = "8" -> 8 [] c = "9" -> 9

isDigit(s, i) == Len(s) > i /\ s[i + 1] \in DigitChars

isLeap(year) == year % 4 = 0 /\ (year % 100 # 0 \/ year % 400 = 0)

daysIn(m, year) ==
    IF m = 2 THEN (IF isLeap(year) THEN 29 ELSE 28)
    ELSE IF m \in {4, 6, 9, 11} THEN 30 ELSE 31

\* time.Parse("2006-01-02", value): a four-digit year, "-", a two-digit
\* month, "-", a two-digit day and nothing after it; the month in 1..12 and
\* the day within the month.  On any error the result is the zero Time.
ParseDate(value) ==
    LET yearOk  == /\ Len(value) >= 4
                   /\ \A i \in 0..3 : isDigit(value, i)
        year    == DigitVal(value[1]) * 1000 + DigitVal(value[2]) * 100
                     + DigitVal(value[3]) * 10 + DigitVal(value[4])
        v1      == From(value, 4)
        sep1Ok  == HasPrefix(v1, <<"-">>)
        v2      == From(v1, 1)
        monthOk == isDigit(v2, 0) /\ isDigit(v2, 1)
        month   == DigitVal(v2[1]) * 10 + DigitVal(v2[2])
        v3      == From(v2, 2)
        sep2Ok  == HasPrefix(v3, <<"-">>)
        v4      == From(v3, 1)
        dayOk   == isDigit(v4, 0) /\ isDigit(v4, 1)
        day     == DigitVal(v4[1]) * 10 + DigitVal(v4[2])
        rest    == From(v4, 2)
    IN  IF /\ yearOk /\ sep1Ok /\ monthOk /\ sep2Ok /\ dayOk
           /\ month >= 1 /\ month <= 12
           /\ rest = <<>>
           /\ day >= 1 /\ day <= daysIn(month, year)
        THEN [err |-> FALSE, t |-> <<year, month, day>>]
        ELSE [err |-> TRUE, t |-> ZeroTime]

(***************************************************************************)
(* the content directory                                                   *)
(***************************************************************************)
\* the "---" delimiter of the frontmatter
Delim == <<"-", "-", "-">>

NL == <<"\n">>

TitlePrefix == <<"T", "i", "t", "l", "e", ":", " ">>

DatePrefix == <<"D", "a", "t", "e", ":", " ">>

\* the truncation marker of a summary
Marker == <<".", ".", ".">>

\* the length after which a summary is truncated
SummaryLimit == 150

\* n copies of the character c
Repeat(c, n) == [i \in 1..n |-> c]

\* bodies: short, exactly at the limit, one over the limit (the character
\* past the limit differs from the rest), and one that contains the delimiter
BodyHello == <<"\n", "H", "e", "l", "l", "o">>

BodyAtLimit == Repeat("x", SummaryLimit)

BodyOverLimit == Repeat("x", SummaryLimit) \o <<"y">>

BodyWithDelim == <<"\n", "a">> \o Delim \o <<"b", "\n">>

\* metadata blocks
Date20240601 == <<"2", "0", "2", "4", "-", "0", "6", "-", "0", "1">>

Date20240101 == <<"2", "0", "2", "4", "-", "0", "1", "-", "0", "1">>

Date00000601 == <<"0", "0", "0", "0", "-", "0", "6", "-", "0", "1">>

Date20230229 == <<"2", "0", "2", "3", "-", "0", "2", "-", "2", "9">>

DateNotADate == <<"n", "o", "t", "-", "a", "-", "d", "a", "t", "e">>

MetaJune == NL \o TitlePrefix \o <<"A">> \o NL \o DatePrefix \o Date20240601 \o NL

MetaJan == NL \o DatePrefix \o Date20240101 \o NL \o TitlePrefix \o <<"B">> \o NL

\* the date padded with blanks and a carriage return, which TrimSpace removes
MetaJanPadded == NL \o DatePrefix \o <<" ">> \o Date20240101 \o <<" ", "\r">> \o NL

MetaBadDate == NL \o TitlePrefix \o <<"C">> \o NL \o DatePrefix \o DateNotADate \o NL

MetaNoDate == NL \o TitlePrefix \o <<"D">> \o NL \o <<"x", ":", " ", "y">> \o NL

MetaYearZero == NL \o DatePrefix \o Date00000601 \o NL

\* a valid Date line followed by one whose day is out of range
MetaTwoDates ==
    NL \o DatePrefix \o Date20240601 \o NL \o DatePrefix \o Date20230229 \o NL

\* texts of source files
TextJune == Delim \o MetaJune \o Delim \o BodyHello

TextJanAtLimit == Delim \o MetaJan \o Delim \o BodyAtLimit

TextJanOverLimit == Delim \o MetaJanPadded \o Delim \o BodyOverLimit

TextBadDate == Delim \o MetaBadDate \o Delim \o BodyHello

TextNoDate == Delim \o MetaNoDate \o Delim \o BodyWithDelim

TextYearZero == Delim \o MetaYearZero \o Delim \o BodyHello

TextTwoDates == Delim \o MetaTwoDates \o Delim \o BodyHello

\* two delimiters and nothing after the second
TextTwoDelims == Delim \o MetaJune \o Delim

\* one delimiter only
TextOneDelim == Delim \o MetaJune \o BodyHello

\* no delimiter at all
TextNoDelim == BodyHello

\* what a directory entry can be: the text it holds (by the name of the
\* text), whether ReadFile succeeds on it (it fails on an entry that is a
\* directory), and whether goldmark.Convert succeeds on its body
File(holds, readOk, renderOk) ==
    [holds |-> holds, readOk |-> readOk, renderOk |-> renderOk]

Catalogue ==
    { File("June", TRUE, TRUE), File("JanAtLimit", TRUE, TRUE),
      File("JanOverLimit", TRUE, TRUE), File("BadDate", TRUE, TRUE),
      File("NoDate", TRUE, TRUE), File("YearZero", TRUE, TRUE),
      File("TwoDates", TRUE, TRUE), File("TwoDelims", TRUE, TRUE),
      File("OneDelim", TRUE, TRUE), File("NoDelim", TRUE, TRUE),
      File("Directory", FALSE, TRUE), File("June", TRUE, FALSE) }

\* the bytes of a directory entry
TextOf(fileEntry) ==
    CASE fileEntry.holds = "June" -> TextJune
      [] fileEntry.holds = "JanAtLimit" -> TextJanAtLimit
      [] fileEntry.holds = "JanOverLimit" -> TextJanOverLimit
      [] fileEntry.holds = "BadDate" -> TextBadDate
      [] fileEntry.holds = "NoDate" -> TextNoDate
      [] fileEntry.holds = "YearZero" -> TextYearZero
      [] fileEntry.holds = "TwoDates" -> TextTwoDates
      [] fileEntry.holds = "TwoDelims" -> TextTwoDelims
      [] fileEntry.holds = "OneDelim" -> TextOneDelim
      [] fileEntry.holds = "NoDelim" -> TextNoDelim
      [] fileEntry.holds = "Directory" -> <<>>

MdExt == <<".", "m", "d">>

\* names matched by the pattern content/*.md, in the order of ReadDir (sorted
\* by file name, bytewise)
EmbeddedNames ==
    << <<"a", ".", "b">> \o MdExt, <<"a">> \o MdExt, <<"b">> \o MdExt >>

\* names of a content directory that is not restricted to *.md, in the order
\* of ReadDir
AnyNames ==
    << <<"a">> \o MdExt, <<"a", ".", "t", "x", "t">>, <<"b">> \o MdExt >>

\* the elements of a set of numbers in increasing order
RECURSIVE Ascending(_)
Ascending(S) ==
    IF S = {} THEN <<>>
    ELSE LET m == CHOOSE x \in S : \A y \in S : x <= y
         IN  <<m>> \o Ascending(S \ {m})

\* the directory listings over the names: between one and MaxFiles entries,
\* sorted by name, each with a file of the catalogue
Listings(names) ==
    { LET idx == Ascending(S)
      IN  [k \in 1..Len(idx) |->
             [name |-> names[idx[k]], holds |-> f[idx[k]].holds,
              readOk |-> f[idx[k]].readOk, renderOk |-> f[idx[k]].renderOk]] :
        <<S, f>> \in UNION { {<<T, g>> : g \in [T -> Catalogue]} :
                     T \in {U \in SUBSET (1..Len(names)) :
                              U # {} /\ Cardinality(U) <= MaxFiles} } }

(***************************************************************************)
(* loadPosts                                                               *)
(***************************************************************************)
\* the zero Post
ZeroPost ==
    [Title |-> <<>>, Date |-> ZeroTime, Slug |-> <<>>, Content |-> <<>>,
     Summary |-> <<>>]

\* a faulty variant of MetaLine: a Date value that does not parse gives a
\* default date instead of the zero Time
MetaLineDefaultsDate(post, line) ==
    LET p1 == IF HasPrefix(line, TitlePrefix)
              THEN [post EXCEPT !.Title = TrimPrefix(line, TitlePrefix)]
              ELSE post
        parsed == ParseDate(TrimSpace(TrimPrefix(line, DatePrefix)))
    IN  IF HasPrefix(line, DatePrefix)
        THEN [p1 EXCEPT !.Date = IF parsed.err THEN <<2026, 1, 1>> ELSE parsed.t]
        ELSE p1

\* one iteration of the loop over the metadata lines
MetaLine(post, line) ==
    LET p1 == IF HasPrefix(line, TitlePrefix)
              THEN [post EXCEPT !.Title = TrimPrefix(line, TitlePrefix)]
              ELSE post
    IN  IF HasPrefix(line, DatePrefix)
        THEN [p1 EXCEPT !.Date =
                 ParseDate(TrimSpace(TrimPrefix(line, DatePrefix))).t]
        ELSE p1

\* the loop over the metadata lines
RECURSIVE MetaLines(_, _)
MetaLines(post, lines) ==
    IF lines = <<>> THEN post
    ELSE MetaLines(MetaLine(post, Head(lines)), Tail(lines))

\* a faulty variant of SlugOf: the name is cut at its first dot
SlugFirstDot(filename) ==
    LET m == Index(filename, <<".">>)
    IN  IF m < 0 THEN filename ELSE UpTo(filename, m)

\* the slug of a file name
SlugOf(filename) == TrimSuffix(filename, Ext(filename))

\* goldmark.Convert into a bytes.Buffer: the error it returns, and the HTML
\* (the library is outside the repository: a paragraph around the trimmed
\* body stands for its output)
Convert(bodyRaw, renderOk) ==
    [err  |-> ~renderOk,
     html |-> IF TrimSpace(bodyRaw) = <<>> THEN <<>>
              ELSE <<"<p>">> \o TrimSpace(bodyRaw) \o <<"</p>", "\n">>]

\* a faulty variant of SummaryOf: a body exactly at the limit is truncated
SummaryOffByOne(bodyRaw) ==
    IF Len(bodyRaw) >= SummaryLimit
    THEN UpTo(bodyRaw, SummaryLimit) \o Marker
    ELSE bodyRaw

\* the summary of a raw body
SummaryOf(bodyRaw) ==
    IF Len(bodyRaw) > SummaryLimit
    THEN UpTo(bodyRaw, SummaryLimit) \o Marker
    ELSE bodyRaw

\* a faulty variant of TooFewParts: three parts are rejected too
TooFewPartsStrict(parts) == Len(parts) <= 3

\* whether the frontmatter split is rejected
TooFewParts(parts) == Len(parts) < 3

\* the body of the loop over the directory entries: the posts after the
\* entry, given the posts before it, and whether the loop goes on
LoopBody(posts, fileEntry) ==
    LET parts   == SplitN(TextOf(fileEntry), Delim, 3)
        metaRaw == parts[2]
        bodyRaw == parts[3]
        post1   == MetaLines(ZeroPost, Split(metaRaw, NL))
        conv    == Convert(bodyRaw, fileEntry.renderOk)
        post    == [post1 EXCEPT !.Slug = SlugOf(fileEntry.name),
                                 !.Content = conv.html,
                                 !.Summary = SummaryOf(bodyRaw)]
    IN  IF ~fileEntry.readOk THEN posts
        ELSE IF TooFewParts(parts) THEN posts
        ELSE IF conv.err THEN posts
        ELSE Append(posts, post)

\* a faulty variant of Collect: the loop ends at the first entry that is
\* skipped (break for continue)
RECURSIVE CollectStopAtFailure(_, _)
CollectStopAtFailure(posts, entries) ==
    IF entries = <<>> THEN posts
    ELSE IF LoopBody(posts, Head(entries)) = posts THEN posts
    ELSE CollectStopAtFailure(LoopBody(posts, Head(entries)), Tail(entries))

\* the loop over the directory entries
RECURSIVE Collect(_, _)
Collect(posts, entries) ==
    IF entries = <<>> THEN posts
    ELSE Collect(LoopBody(posts, Head(entries)), Tail(entries))

\* a faulty variant of Less: oldest first
LessBefore(p, q) == After(q.Date, p.Date)

\* the less function handed to sort.Slice
Less(p, q) == After(p.Date, q.Date)

\* sort.Slice: the sort is not guaranteed to be stable, so the result is any
\* arrangement of the posts that is sorted by Less
SortSlice(posts) ==
    { [i \in 1..Len(posts) |-> posts[perm[i]]] :
        perm \in { q \in Permutations(1..Len(posts)) :
                     \A i, j \in 1..Len(posts) :
                        i < j => ~Less(posts[q[j]], posts[q[i]]) } }

(***************************************************************************)
(* the handlers                                                            *)
(***************************************************************************)
PostPrefix == <<"/", "p", "o", "s", "t", "/">>

RootPath == <<"/">>

\* the identifiers requested under /post/: the slugs the names can give, one
\* that no name gives, the empty one, and a file name with its extension
RequestIds ==
    { <<"a">>, <<"a", ".", "b">>, <<"b">>, <<"z">>, <<>>, <<"a">> \o MdExt }

\* the request paths
Paths == {RootPath, <<"/", "z">>} \cup {PostPrefix \o id : id \in RequestIds}

\* a faulty variant of FindPost: the scan does not break, so the last match
\* is kept
RECURSIVE FindPostLast(_, _)
FindPostLast(cache, slug) ==
    IF cache = <<>> THEN [found |-> FALSE, foundPost |-> ZeroPost]
    ELSE IF cache[Len(cache)].Slug = slug
         THEN [found |-> TRUE, foundPost |-> cache[Len(cache)]]
         ELSE FindPostLast(UpTo(cache, Len(cache) - 1), slug)

\* a faulty variant of FindPost: a scan without a match reports the zero Post
\* as found
RECURSIVE FindPostDefault(_, _)
FindPostDefault(cache, slug) ==
    IF cache = <<>> THEN [found |-> TRUE, foundPost |-> ZeroPost]
    ELSE IF Head(cache).Slug = slug
         THEN [found |-> TRUE, foundPost |-> Head(cache)]
         ELSE FindPostDefault(Tail(cache), slug)

\* the scan of the /post/ handler: found, and foundPost
RECURSIVE FindPost(_, _)
FindPost(cache, slug) ==
    IF cache = <<>> THEN [found |-> FALSE, foundPost |-> ZeroPost]
    ELSE IF Head(cache).Slug = slug
         THEN [found |-> TRUE, foundPost |-> Head(cache)]
         ELSE FindPost(Tail(cache), slug)

\* what a handler did with a request: the path requested, the locals found
\* and foundPost of the scan, the status ("panic" when the handler panicked
\* before writing), whether a template was executed, and the data handed to
\* it (Title, and Posts of IndexData or Post of PostData)
Response(path, scan, status, rendered, title, post, posts) ==
    [path |-> path, found |-> scan.found, foundPost |-> scan.foundPost,
     status |-> status, rendered |-> rendered, Title |-> title,
     Post |-> post, Posts |-> posts]

\* the locals of a handler that scans nothing
NoScan == [found |-> FALSE, foundPost |-> ZeroPost]

NoResponse == Response(<<>>, NoScan, "none", FALSE, <<>>, ZeroPost, <<>>)

BlogTitle == <<"r", "e", "n", "v", "i", "n", "s">>

(***************************************************************************)
(* the program                                                             *)
(***************************************************************************)
VARIABLES
    files,        \* the entries of the content directory, as ReadDir lists them
    readDirErr,   \* whether ReadDir("content") fails
    pc,           \* where main is: "main", "loaded", "serving", "exit"
    postCache,    \* the global cache
    cacheWrites,  \* how many times postCache was assigned
    resp          \* the response to the latest request

vars == <<files, readDirErr, pc, postCache, cacheWrites, resp>>

\* the state before main runs, with the embedded content directory: the
\* pattern content/*.md matches at least one file (the build fails
\* otherwise), and ReadDir on an embedded directory does not fail
Init ==
    /\ files \in Listings(EmbeddedNames)
    /\ readDirErr = FALSE
    /\ pc = "main"
    /\ postCache = <<>>
    /\ cacheWrites = 0
    /\ resp = NoResponse

\* the state before main runs, with a content directory of any names, whose
\* listing may fail
InitAnySource ==
    /\ files \in Listings(AnyNames)
    /\ readDirErr \in BOOLEAN
    /\ pc = "main"
    /\ postCache = <<>>
    /\ cacheWrites = 0
    /\ resp = NoResponse

\* loadPosts, called by main
LoadPosts ==
    /\ pc = "main"
    /\ IF readDirErr
       THEN /\ pc' = "exit"
            /\ UNCHANGED <<postCache, cacheWrites>>
       ELSE /\ postCache' \in SortSlice(Collect(<<>>, files))
            /\ cacheWrites' = cacheWrites + 1
            /\ pc' = "loaded"
    /\ UNCHANGED <<files, readDirErr, resp>>

\* main registers the handlers and starts listening
Listen ==
    /\ pc = "loaded"
    /\ pc' = "serving"
    /\ UNCHANGED <<files, readDirErr, postCache, cacheWrites, resp>>

\* a faulty variant of HandleIndex: the handler sorts the slice it renders,
\* which is postCache itself
HandleIndexSorting(path) ==
    /\ pc = "serving"
    /\ ~HasPrefix(path, PostPrefix)
    /\ postCache' \in SortSlice(postCache)
    /\ resp' = Response(path, NoScan, "200", TRUE, BlogTitle, ZeroPost, postCache')
    /\ UNCHANGED <<files, readDirErr, pc, cacheWrites>>

\* the handler of "/", which the mux gives every path outside /post/
HandleIndex(path) ==
    /\ pc = "serving"
    /\ ~HasPrefix(path, PostPrefix)
    /\ IF path # RootPath
       THEN resp' = Response(path, NoScan, "404", FALSE, <<>>, ZeroPost, <<>>)
       ELSE \E tmplErr \in BOOLEAN :
              resp' = IF tmplErr
                      THEN Response(path, NoScan, "500", FALSE, <<>>, ZeroPost,
                                    <<>>)
                      ELSE Response(path, NoScan, "200", TRUE, BlogTitle,
                                    ZeroPost, postCache)
    /\ UNCHANGED <<files, readDirErr, pc, postCache, cacheWrites>>

\* the handler of "/post/"
HandlePost(path) ==
    /\ pc = "serving"
    /\ HasPrefix(path, PostPrefix)
    /\ LET slug == TrimPrefix(path, PostPrefix)
           scan == FindPost(postCache, slug)
       IN  IF ~scan.found
           THEN resp' = Response(path, scan, "404", FALSE, <<>>, ZeroPost, <<>>)
           ELSE \E tmplErr \in BOOLEAN :
                  resp' = IF tmplErr
                          THEN Response(path, scan, "panic", FALSE, <<>>,
                                        ZeroPost, <<>>)
                          ELSE Response(path, scan, "200", TRUE,
                                        scan.foundPost.Title, scan.foundPost,
                                        <<>>)
    /\ UNCHANGED <<files, readDirErr, pc, postCache, cacheWrites>>

ServeIndex == \E path \in Paths : HandleIndex(path)

ServePost == \E path \in Paths : HandlePost(path)

Next == LoadPosts \/ Listen \/ ServeIndex \/ ServePost

Spec == Init /\ [][Next]_vars

SpecAnySource == InitAnySource /\ [][Next]_vars

(***************************************************************************)
(* vocabulary of the properties, computed apart from the operators of      *)
(* loadPosts                                                               *)
(***************************************************************************)
\* loadPosts has returned
Built == pc \in {"loaded", "serving"}

\* a date as a number that grows with the date
DayKey(t) == t[1] * 372 + (t[2] - 1) * 31 + t[3]

\* the positions at or after lo where sep occurs in s
Hits(s, sep, lo) ==
    {m \in lo..(Len(s) - Len(sep) + 1) :
        s[m] = sep[1] /\ SubSeq(s, m, m + Len(sep) - 1) = sep}

\* the least number of a non-empty set of numbers
Least(S) == CHOOSE m \in S : \A k \in S : m <= k

\* the greatest number of a non-empty set of numbers
Greatest(S) == CHOOSE m \in S : \A k \in S : m >= k

\* how many times sep occurs in s at or after lo, without overlap, from the
\* left
RECURSIVE OccurrencesFrom(_, _, _)
OccurrencesFrom(s, sep, lo) ==
    LET hits == Hits(s, sep, lo)
    IN  IF hits = {} THEN 0
        ELSE 1 + OccurrencesFrom(s, sep, Least(hits) + Len(sep))

Occurrences(s, sep) == OccurrencesFrom(s, sep, 1)

\* the position after the n-th occurrence of sep in s at or after lo (s has
\* at least n of them)
RECURSIVE PositionAfterNth(_, _, _, _)
PositionAfterNth(s, sep, lo, n) ==
    IF n = 0 THEN lo
    ELSE PositionAfterNth(s, sep, Least(Hits(s, sep, lo)) + Len(sep), n - 1)

\* the raw body of a text that has the three-segment structure
RawBody(text) == SubSeq(text, PositionAfterNth(text, Delim, 1, 2), Len(text))

\* the source is read, has the three-segment structure, and renders
Accepted(f) == f.readOk /\ Occurrences(TextOf(f), Delim) >= 2 /\ f.renderOk

\* the name of an embedded source without its .md
Stem(name) == SubSeq(name, 1, Len(name) - Len(MdExt))

\* the positions in the directory listing of the sources named like the slug
SourcesOf(slug) == {k \in DOMAIN files : Stem(files[k].name) = slug}

\* the positions in the index of the documents with the slug
DocsOf(slug) == {i \in DOMAIN postCache : postCache[i].Slug = slug}

\* the listing without its k-th entry
Without(k) == SubSeq(files, 1, k - 1) \o SubSeq(files, k + 1, Len(files))

\* the identifier a /post/ request asks for
RequestedId == SubSeq(resp.path, Len(PostPrefix) + 1, Len(resp.path))

\* the latest request went to the /post/ handler
PostRequest ==
    /\ Len(resp.path) >= Len(PostPrefix)
    /\ SubSeq(resp.path, 1, Len(PostPrefix)) = PostPrefix

(***************************************************************************)
(* properties                                                              *)
(***************************************************************************)
\* C1: after loadPosts the listing is sorted by publication date, newest
\* first: each document's date is on or after the date of the next one.
ListingSortedDescending ==
    Built =>
        \A i \in 1..(Len(postCache) - 1) :
            DayKey(postCache[i].Date) >= DayKey(postCache[i + 1].Date)

\* C1, its case: the last source enumerated has the newest date and comes
\* first in the listing, so the sort has moved it.
NewestSourceMovedFirst ==
    /\ pc = "serving"
    /\ Len(postCache) >= 2
    /\ postCache[1].Slug = Stem(files[Len(files)].name)
    /\ DayKey(postCache[1].Date) > DayKey(postCache[2].Date)

\* C2: the sort is stable: two documents with equal dates are in the index
\* in the order in which their sources were enumerated.
SortIsStable ==
    Built =>
        \A i, j \in DOMAIN postCache :
            (i < j /\ postCache[i].Date = postCache[j].Date) =>
                \A k1 \in SourcesOf(postCache[i].Slug) :
                    \A k2 \in SourcesOf(postCache[j].Slug) : k1 < k2

\* C3: a lookup by the slug of a document of the index finds exactly that
\* document: the scan of the /post/ handler sets found, foundPost is the
\* document, and the document is what is rendered.
FindBySlugRoundTrips ==
    \A i \in DOMAIN postCache :
        (PostRequest /\ RequestedId = postCache[i].Slug) =>
            /\ resp.found
            /\ resp.foundPost = postCache[i]
            /\ resp.status # "404"
            /\ resp.rendered => resp.Post = postCache[i]

\* C3, its case: the document looked up and rendered is not the first of the
\* index.
LookupOfLaterDocument ==
    /\ PostRequest
    /\ resp.rendered
    /\ Len(postCache) >= 2
    /\ resp.Post = postCache[2]
    /\ postCache[1] # postCache[2]

\* C4: a lookup by an identifier that is the slug of no document of the index
\* answers not-found and renders nothing, also on an empty index.
AbsentSlugNotFound ==
    (PostRequest /\ DocsOf(RequestedId) = {}) =>
        /\ ~resp.found
        /\ resp.status = "404"
        /\ ~resp.rendered

\* C4, its case: a lookup on an empty index was answered not-found.
NotFoundOnEmptyIndex ==
    /\ PostRequest
    /\ postCache = <<>>
    /\ resp.status = "404"

\* a text with exactly two delimiters and nothing after the second
TwoDelimsNoTrailing(text) ==
    /\ Occurrences(text, Delim) = 2
    /\ SubSeq(text, Len(text) - Len(Delim) + 1, Len(text)) = Delim

\* C5 as stated: a source with only two delimiters and nothing after the
\* second is rejected: the index has as many documents as without it.
TwoDelimsRejected ==
    Built =>
        \A k \in DOMAIN files :
            TwoDelimsNoTrailing(TextOf(files[k])) =>
                Len(postCache) = Len(Collect(<<>>, Without(k)))

\* C5 as amended: a source with fewer than two delimiters is rejected, and
\* the index has as many documents as without it and none with its slug; a
\* readable source with two delimiters and nothing after the second is
\* accepted, with an empty summary.
FewerThanTwoDelimsRejected ==
    Built =>
        \A k \in DOMAIN files :
            /\ Occurrences(TextOf(files[k]), Delim) < 2 =>
                  /\ Len(postCache) = Len(Collect(<<>>, Without(k)))
                  /\ DocsOf(Stem(files[k].name)) = {}
            /\ (TwoDelimsNoTrailing(TextOf(files[k])) /\ Accepted(files[k])) =>
                  \E i \in DocsOf(Stem(files[k].name)) :
                      postCache[i].Summary = <<>>

\* C5, its case: a readable source with one delimiter was skipped, next to a
\* source that was accepted.
OneDelimSourceSkipped ==
    /\ Built
    /\ Len(postCache) = 1
    /\ \E k \in DOMAIN files :
          /\ files[k].readOk
          /\ Occurrences(TextOf(files[k]), Delim) = 1
          /\ DocsOf(Stem(files[k].name)) = {}

\* C6: after loadPosts the index has exactly one document for each source
\* that was read, has the three-segment structure and rendered, and none for
\* any other source, wherever the failing sources are in the enumeration.
OneDocumentPerAcceptedSource ==
    Built =>
        /\ Len(postCache) =
              Cardinality({k \in DOMAIN files : Accepted(files[k])})
        /\ \A k \in DOMAIN files :
              Cardinality(DocsOf(Stem(files[k].name))) =
                  IF Accepted(files[k]) THEN 1 ELSE 0

\* C6, its case: a source that fails is enumerated before one that is
\* accepted, and the latter is in the index.
SourceAfterFailureProcessed ==
    /\ Built
    /\ \E k1, k2 \in DOMAIN files :
          /\ k1 < k2
          /\ ~Accepted(files[k1])
          /\ Accepted(files[k2])
          /\ DocsOf(Stem(files[k2].name)) # {}

\* C7: the summary of a document is its raw body when that has at most 150
\* characters, and else the first 150 characters followed by "...", 153 in
\* all.
SummaryTruncation ==
    Built =>
        \A i \in DOMAIN postCache :
            \A k \in SourcesOf(postCache[i].Slug) :
                LET body == RawBody(TextOf(files[k]))
                IN  IF Len(body) <= SummaryLimit
                    THEN postCache[i].Summary = body
                    ELSE /\ SubSeq(postCache[i].Summary, 1, SummaryLimit) =
                               SubSeq(body, 1, SummaryLimit)
                         /\ SubSeq(postCache[i].Summary, SummaryLimit + 1,
                                   Len(postCache[i].Summary)) = Marker
                         /\ Len(postCache[i].Summary) = 153

\* C7, its case: the index has a document whose body is exactly at the limit
\* and one whose body is over it.
SummaryAtAndOverLimit ==
    /\ Built
    /\ \E i, j \in DOMAIN postCache :
          /\ Len(postCache[i].Summary) = SummaryLimit
          /\ \E k \in SourcesOf(postCache[i].Slug) :
                Len(RawBody(TextOf(files[k]))) = SummaryLimit
          /\ Len(postCache[j].Summary) = SummaryLimit + Len(Marker)
          /\ \E k \in SourcesOf(postCache[j].Slug) :
                Len(RawBody(TextOf(files[k]))) > SummaryLimit

\* C8: the index is built once, before the server listens, and is read-only
\* afterwards: postCache is assigned by loadPosts alone, once, before any
\* request is served; no request changes it; every listing rendered is the
\* whole postCache.
BuiltOnceThenReadOnly ==
    /\ [](pc = "serving" => cacheWrites = 1)
    /\ [](resp # NoResponse => pc = "serving")
    /\ []((resp.rendered /\ ~PostRequest) => resp.Posts = postCache)
    /\ [][/\ (postCache' # postCache \/ cacheWrites' # cacheWrites) =>
                (pc = "main" /\ pc' = "loaded")
          /\ pc = "serving" => (pc' = "serving" /\ postCache' = postCache)
          /\ (pc # "serving" /\ pc' = "serving") => pc = "loaded"]_vars

\* C8, its case: a listing of an index with two documents of equal dates was
\* rendered, after the one build.
ListingServedFromSnapshot ==
    /\ pc = "serving"
    /\ cacheWrites = 1
    /\ resp.rendered
    /\ ~PostRequest
    /\ Len(resp.Posts) >= 2
    /\ resp.Posts[1].Date = resp.Posts[2].Date

\* the sources whose Date value is invalid, or that have no Date line
Undated(f) == f.holds \in {"BadDate", "NoDate"}

\* C9 as stated: an accepted source with an invalid or missing date is in the
\* index with the zero date, and no document with a valid, non-zero date
\* comes after it.
UndatedSortsOldest ==
    Built =>
        \A k \in DOMAIN files :
            (Undated(files[k]) /\ Accepted(files[k])) =>
                \E i \in DocsOf(Stem(files[k].name)) :
                    /\ postCache[i].Date = ZeroTime
                    /\ \A j \in DOMAIN postCache :
                          j > i => postCache[j].Date = ZeroTime

\* C9 as amended: an accepted source with an invalid or missing date is in
\* the index with the zero date, 0001-01-01, and no document dated after
\* 0001-01-01 comes after it (a document dated in the year 0000 does).
UndatedSortsBelowLaterDates ==
    Built =>
        \A k \in DOMAIN files :
            (Undated(files[k]) /\ Accepted(files[k])) =>
                \E i \in DocsOf(Stem(files[k].name)) :
                    /\ postCache[i].Date = ZeroTime
                    /\ \A j \in DOMAIN postCache :
                          j > i =>
                            DayKey(postCache[j].Date) <= DayKey(ZeroTime)

\* C9, its case: a source with an invalid date is enumerated before a source
\* with a valid date after 0001-01-01, and is after it in the index.
UndatedMovedBehindDated ==
    /\ Built
    /\ Len(postCache) >= 2
    /\ files[1].holds = "BadDate"
    /\ postCache[Len(postCache)].Slug = Stem(files[1].name)
    /\ DayKey(postCache[1].Date) > DayKey(ZeroTime)

\* the positions in the listing of the accepted sources that derive the slug
AcceptedSourcesOf(slug) ==
    {k \in DOMAIN files : Accepted(files[k]) /\ SlugOf(files[k].name) = slug}

\* the document loadPosts makes of an accepted source
PostOf(f) == LoopBody(<<>>, f)[1]

====
